---- MODULE Spec2Model ----
(***************************************************************************)
(* Teams greeting bot: the in-memory meeting membership tracker            *)
(* (services/teams_service.py), the greeting dispatcher, the greeting      *)
(* text/voice selector (services/openai_service.py), the bot's meeting     *)
(* event handlers (bot/teams_bot.py) and the webhook (routers/             *)
(* bot_routes.py).                                                         *)
(*                                                                         *)
(* Python coroutines run on one event loop: a handler runs without         *)
(* interruption until it awaits the text-to-speech network call.  The      *)
(* variable running names the webhook task that holds the event loop (0    *)
(* when none does); a task gives the loop up only when it suspends in the  *)
(* synthesis call or when it has sent its response.                        *)
(***************************************************************************)
EXTENDS Integers, Sequences, FiniteSets, TLC

(* ------------------------------ bounds --------------------------------- *)
\* number of inbound webhook requests in a behaviour; the clock is the
\* arrival number of the request, so utcnow() differs from request to request
MaxTime == 3

(* ------------------------- Python value helpers ------------------------ *)
\* the attribute exists and holds None
PyNone == "<None>"
\* the attribute does not exist on the object
Absent == "<absent>"

\* getattr(obj, name, default)
Getattr(v, default) == IF v = Absent THEN default ELSE v

\* truthiness of an optional string
Truthy(v) == v # PyNone /\ v # Absent /\ v # ""

\* a or b
PyOr(a, b) == IF Truthy(a) THEN a ELSE b

\* a str field of a pydantic model accepts v
IsStr(v) == v # PyNone /\ v # Absent

UpperChars == "ABCDEFGHIJKLMNOPQRSTUVWXYZ"
LowerChars == "abcdefghijklmnopqrstuvwxyz"

\* str.lower() on one character
LowerChar(c) ==
    IF \E i \in 1..Len(UpperChars) : SubSeq(UpperChars, i, i) = c
    THEN LET i == CHOOSE j \in 1..Len(UpperChars) : SubSeq(UpperChars, j, j) = c
         IN  SubSeq(LowerChars, i, i)
    ELSE c

RECURSIVE StrLower(_)
\* str.lower()
StrLower(s) ==
    IF Len(s) = 0 THEN ""
    ELSE LowerChar(SubSeq(s, 1, 1)) \o StrLower(SubSeq(s, 2, Len(s)))

\* t in s, for strings
StrContains(s, t) ==
    \E i \in 1..(Len(s) - Len(t) + 1) : SubSeq(s, i, i + Len(t) - 1) = t

(* ------------------------------ inputs --------------------------------- *)
\* TeamsMeetingParticipant objects as the framework hands them over:
\* user.id, user.name, user.user_principal_name, user.email, meeting.role
Ana   == [id |-> "p1", name |-> "Ana", user_principal_name |-> "ana@contoso.com",
          email |-> Absent, role |-> "Organizer"]
Bia   == [id |-> "p2", name |-> "Bia", user_principal_name |-> PyNone,
          email |-> "bia@contoso.com", role |-> "Presenter"]
Abbot == [id |-> "p3", name |-> "Abbot", user_principal_name |-> PyNone,
          email |-> PyNone, role |-> Absent]
NoId  == [id |-> PyNone, name |-> "Eve", user_principal_name |-> PyNone,
          email |-> PyNone, role |-> Absent]
Anon  == [id |-> Absent, name |-> Absent, user_principal_name |-> Absent,
          email |-> Absent, role |-> Absent]

\* an event: meeting_info.id, the participants, and the meeting id of the
\* activity's channel data (Absent: the activity names no meeting)
Event(meeting_info_id, batch, cd_meeting) ==
    [meeting_info_id |-> meeting_info_id, batch |-> batch, cd_meeting |-> cd_meeting]

\* the join events of the runs
JoinEvents ==
    {Event("m1", <<Ana>>, "m1"),
     Event("m1", <<Ana, Bia>>, Absent),
     Event("m1", <<Abbot, Ana, NoId>>, "m1"),
     Event("m2", <<Bia>>, "m2"),
     Event(Absent, <<Anon>>, Absent),
     Event(PyNone, <<Ana>>, Absent)}

\* the leave events of the runs
LeaveEvents ==
    {Event("m1", <<Ana>>, "m1"),
     Event("m1", <<Bia, Ana>>, Absent),
     Event("m2", <<Bia>>, Absent)}

\* the message activities of the runs: the meeting of the channel data and
\* the conversation reference
MessageEvents == {<<"m1", "conv2">>}

(* --------------------- bot/teams_bot.py: conversion -------------------- *)
\* the value of a failed conversion
NoParticipant == [id |-> PyNone, display_name |-> PyNone, email |-> PyNone,
                  role |-> PyNone, is_muted |-> FALSE, joined_at |-> 0]

\* role of _convert_teams_participant, given hasattr(meeting, 'role') and a str role
RoleOf(role_str) ==
    IF role_str \in {"organizer", "coorganizer"}
    THEN (IF role_str = "organizer" THEN "organizer" ELSE "coorganizer")
    ELSE IF role_str = "presenter" THEN "presenter"
    ELSE "attendee"

\* _convert_teams_participant raises: None.lower() on a role that is None, or
\* pydantic's ValidationError on an id or display name that is not a str
ConvertRaises(tp) ==
    \/ tp.role = PyNone
    \/ ~IsStr(Getattr(tp.id, "unknown"))
    \/ ~IsStr(Getattr(tp.name, "Unknown User"))

\* the ParticipantInfo _convert_teams_participant returns at time t
ConvertTeamsParticipant(tp, t) ==
    [id           |-> Getattr(tp.id, "unknown"),
     display_name |-> Getattr(tp.name, "Unknown User"),
     email        |-> PyOr(Getattr(tp.user_principal_name, PyNone),
                           Getattr(tp.email, PyNone)),
     role         |-> IF tp.role = Absent THEN "attendee"
                      ELSE RoleOf(StrLower(tp.role)),
     is_muted     |-> FALSE,
     joined_at    |-> t]

bot_identifiers == {"teamsgreetingbot", "greeting bot", "bot", "@bot"}

\* _is_bot_participant
IsBotParticipant(participant) ==
    \E identifier \in bot_identifiers :
        StrContains(StrLower(participant.display_name), identifier)

\* participant_id of on_teams_meeting_participants_leave
LeaveParticipantId(tp) == Getattr(tp.id, "unknown")

(* ----------------- services/openai_service.py: selector ---------------- *)
default_greeting_language == "pt-BR"

Languages == {"pt-BR", "en-US", "es-ES", "fr-FR"}

\* the greetings table of generate_greeting_text
Greetings(name) ==
    [l \in Languages |->
        CASE l = "pt-BR" -> "Bom dia, " \o name
          [] l = "en-US" -> "Good morning, " \o name
          [] l = "es-ES" -> "Buenos dias, " \o name
          [] l = "fr-FR" -> "Bonjour, " \o name]

RECURSIVE StrFormatName(_, _)
\* custom_message.format(name=participant_name), for templates whose only
\* replacement field is {name}
StrFormatName(template, name) ==
    IF Len(template) = 0 THEN ""
    ELSE IF Len(template) >= 6 /\ SubSeq(template, 1, 6) = "{name}"
         THEN name \o StrFormatName(SubSeq(template, 7, Len(template)), name)
         ELSE SubSeq(template, 1, 1)
              \o StrFormatName(SubSeq(template, 2, Len(template)), name)

RECURSIVE StrFormatExc(_)
\* what custom_message.format(name=...) raises: a replacement field other
\* than {name} is a KeyError (templates without {{, }} and unmatched braces)
StrFormatExc(template) ==
    IF Len(template) = 0 THEN "none"
    ELSE IF SubSeq(template, 1, 1) # "{"
         THEN StrFormatExc(SubSeq(template, 2, Len(template)))
         ELSE IF Len(template) >= 6 /\ SubSeq(template, 1, 6) = "{name}"
              THEN StrFormatExc(SubSeq(template, 7, Len(template)))
              ELSE "KeyError"

\* generate_greeting_text: what it raises
GenerateGreetingTextExc(participant_name, language, custom_message) ==
    IF Truthy(custom_message) THEN StrFormatExc(custom_message) ELSE "none"

\* mutant: the custom template is ignored
GenerateGreetingTextIgnoresTemplate(participant_name, language, custom_message) ==
    IF language \in Languages
    THEN Greetings(participant_name)[language]
    ELSE Greetings(participant_name)["pt-BR"]

\* generate_greeting_text
GenerateGreetingText(participant_name, language, custom_message) ==
    IF Truthy(custom_message)
    THEN StrFormatName(custom_message, participant_name)
    ELSE IF language \in Languages
         THEN Greetings(participant_name)[language]
         ELSE Greetings(participant_name)["pt-BR"]

\* mutant: one voice for every language
SelectedVoiceOneForAll(language) == "alloy"

\* voice_mapping.get(language, "alloy") of generate_greeting_audio
SelectedVoice(language) ==
    CASE language = "pt-BR" -> "alloy"
      [] language = "en-US" -> "echo"
      [] language = "es-ES" -> "fable"
      [] language = "fr-FR" -> "onyx"
      [] OTHER -> "alloy"

(* ------------------ services/teams_service.py: tracker ----------------- *)
\* dict[k] = v
Put(f, k, v) == [x \in (DOMAIN f) \cup {k} |-> IF x = k THEN v ELSE f[x]]

\* del dict[k]
Del(f, k) == [x \in (DOMAIN f) \ {k} |-> f[x]]

\* an empty dict
EmptyDict == [x \in {} |-> 0]

\* mutant: the record is stamped with a fixed time instead of utcnow()
NewMeetingStaleTime(meeting_id, t) ==
    [meeting_id |-> meeting_id, organizer_id |-> "unknown", subject |-> PyNone,
     participants |-> <<>>, started_at |-> 0]

\* MeetingInfo(meeting_id=..., organizer_id="unknown", started_at=utcnow())
NewMeeting(meeting_id, t) ==
    [meeting_id |-> meeting_id, organizer_id |-> "unknown", subject |-> PyNone,
     participants |-> <<>>, started_at |-> t]

\* the ids of a participant list
IdsOf(participants) == {participants[i].id : i \in 1..Len(participants)}

\* [p for p in participants if p.id != participant_id]
RECURSIVE WithoutId(_, _)
WithoutId(participants, participant_id) ==
    IF participants = <<>> THEN <<>>
    ELSE IF Head(participants).id # participant_id
         THEN <<Head(participants)>> \o WithoutId(Tail(participants), participant_id)
         ELSE WithoutId(Tail(participants), participant_id)

\* handle_meeting_join, lines 37-42: the meetings map once the meeting exists
InitializeMeeting(meetings, meeting_id, t) ==
    IF meeting_id \notin DOMAIN meetings
    THEN Put(meetings, meeting_id, NewMeeting(meeting_id, t))
    ELSE meetings

\* mutant: every join starts the index entry of the meeting afresh
InitializeCacheAlways(meetings, cache, meeting_id) == Put(cache, meeting_id, {})

\* handle_meeting_join, lines 37 and 43: the index once the meeting exists
InitializeCache(meetings, cache, meeting_id) ==
    IF meeting_id \notin DOMAIN meetings
    THEN Put(cache, meeting_id, {})
    ELSE cache

\* mutant: the duplicate check is dropped
IsNewParticipantAlways(cache, meeting_id, participant_id) == TRUE

\* handle_meeting_join, line 48
IsNewParticipant(cache, meeting_id, participant_id) ==
    participant_id \notin cache[meeting_id]

\* mutant: the participant is greeted before it is put in the index
CacheAddForgotten(cache, meeting_id, participant_id) == cache

\* handle_meeting_join, line 52
CacheAdd(cache, meeting_id, participant_id) ==
    [cache EXCEPT ![meeting_id] = @ \cup {participant_id}]

\* mutant: the participant is put in the list twice
ParticipantsAppendTwice(meetings, meeting_id, participant) ==
    [meetings EXCEPT ![meeting_id].participants = @ \o <<participant, participant>>]

\* mutant: the participant is put in the index but not in the list
ParticipantsAppendForgotten(meetings, meeting_id, participant) == meetings

\* handle_meeting_join, line 53
ParticipantsAppend(meetings, meeting_id, participant) ==
    [meetings EXCEPT ![meeting_id].participants = Append(@, participant)]

\* the exception raised in the try block of handle_meeting_join before the
\* greeting: MeetingInfo(meeting_id=None) fails validation; a tracked meeting
\* without an index entry makes line 48 a KeyError
JoinBodyExc(meetings, cache, meeting_id) ==
    IF meeting_id \notin DOMAIN meetings /\ ~IsStr(meeting_id) THEN "ValidationError"
    ELSE IF meeting_id \in DOMAIN meetings /\ meeting_id \notin DOMAIN cache
         THEN "KeyError"
         ELSE "none"

\* handle_meeting_join up to the greeting (lines 31-53): the maps it leaves,
\* whether the participant was new, and the exception its try block raised
HandleMeetingJoin(meetings, cache, meeting_id, participant, t) ==
    LET exc == JoinBodyExc(meetings, cache, meeting_id) IN
    IF exc # "none"
    THEN [active_meetings |-> meetings, participant_cache |-> cache,
          is_new |-> FALSE, exc |-> exc]
    ELSE LET meetings1 == InitializeMeeting(meetings, meeting_id, t)
             cache1    == InitializeCache(meetings, cache, meeting_id)
             is_new    == IsNewParticipant(cache1, meeting_id, participant.id)
         IN  IF is_new
             THEN [active_meetings   |-> ParticipantsAppend(meetings1, meeting_id, participant),
                   participant_cache |-> CacheAdd(cache1, meeting_id, participant.id),
                   is_new |-> TRUE, exc |-> "none"]
             ELSE [active_meetings |-> meetings1, participant_cache |-> cache1,
                   is_new |-> FALSE, exc |-> "none"]

\* mutant: the leaving participant stays in the index
CacheDiscardForgotten(cache, meeting_id, participant_id) == cache

\* handle_meeting_leave, lines 84-85
CacheDiscard(cache, meeting_id, participant_id) ==
    IF meeting_id \in DOMAIN cache
    THEN [cache EXCEPT ![meeting_id] = @ \ {participant_id}]
    ELSE cache

\* mutant: the leaving participant stays in the list
ParticipantsRemoveForgotten(meetings, meeting_id, participant_id) == meetings

\* mutant: the filter of the leave keeps nobody
ParticipantsRemoveAll(meetings, meeting_id, participant_id) ==
    [meetings EXCEPT ![meeting_id].participants = <<>>]

\* handle_meeting_leave, lines 88-90
ParticipantsRemove(meetings, meeting_id, participant_id) ==
    [meetings EXCEPT ![meeting_id].participants = WithoutId(@, participant_id)]

\* mutant: a meeting with one participant left counts as empty
MeetingIsEmptyOffByOne(participants) == Len(participants) <= 1

\* mutant: the leave never finds the meeting empty
MeetingIsEmptyNever(participants) == FALSE

\* handle_meeting_leave, line 100: not meeting.participants
MeetingIsEmpty(participants) == Len(participants) = 0

\* mutant: the cleanup empties the dict
CleanupDictAll(d, meeting_id) == [x \in {} |-> 0]

\* _cleanup_meeting, lines 190-197, on one of the three dicts
CleanupDict(d, meeting_id) ==
    IF meeting_id \in DOMAIN d THEN Del(d, meeting_id) ELSE d

\* mutant: cleanup leaves the conversation reference behind
CleanupReferencesForgotten(refs, meeting_id) == refs

\* _cleanup_meeting on conversation_references, lines 196-197
CleanupReferences(refs, meeting_id) == CleanupDict(refs, meeting_id)

\* mutant: the leave cleans up without looking whether the meeting is tracked
HandleMeetingLeaveCleansAlways(meetings, cache, refs, meeting_id, participant_id) ==
    [active_meetings         |-> CleanupDict(meetings, meeting_id),
     participant_cache       |-> CleanupDict(cache, meeting_id),
     conversation_references |-> CleanupReferences(refs, meeting_id)]

\* handle_meeting_leave (lines 75-101): the three maps it leaves
HandleMeetingLeave(meetings, cache, refs, meeting_id, participant_id) ==
    IF meeting_id \in DOMAIN meetings
    THEN LET cache1    == CacheDiscard(cache, meeting_id, participant_id)
             meetings1 == ParticipantsRemove(meetings, meeting_id, participant_id)
         IN  IF MeetingIsEmpty(meetings1[meeting_id].participants)
             THEN [active_meetings         |-> CleanupDict(meetings1, meeting_id),
                   participant_cache       |-> CleanupDict(cache1, meeting_id),
                   conversation_references |-> CleanupReferences(refs, meeting_id)]
             ELSE [active_meetings |-> meetings1, participant_cache |-> cache1,
                   conversation_references |-> refs]
    ELSE [active_meetings |-> meetings, participant_cache |-> cache,
          conversation_references |-> refs]

\* mutant: a greeting that fails takes the participant out again
GenerateAndPlayGreetingRollsBack(meetings, cache, meeting_id, participant_id, outcome) ==
    IF outcome = "fail" /\ meeting_id \in DOMAIN meetings
    THEN [active_meetings   |-> ParticipantsRemove(meetings, meeting_id, participant_id),
          participant_cache |-> CacheDiscard(cache, meeting_id, participant_id)]
    ELSE [active_meetings |-> meetings, participant_cache |-> cache]

\* mutant: the participant is put in the index when the greeting has ended
GenerateAndPlayGreetingAddsAfter(meetings, cache, meeting_id, participant_id, outcome) ==
    [active_meetings   |-> meetings,
     participant_cache |->
         IF meeting_id \in DOMAIN cache
         THEN CacheAdd(cache, meeting_id, participant_id)
         ELSE Put(cache, meeting_id, {participant_id})]

\* _generate_and_play_greeting and _play_audio_in_meeting (lines 109-158): the
\* meetings map and the index they leave; they read participant.display_name
\* and conversation_references and assign to no attribute of the service
GenerateAndPlayGreeting(meetings, cache, meeting_id, participant_id, outcome) ==
    [active_meetings |-> meetings, participant_cache |-> cache]

\* get_meeting_info
GetMeetingInfo(meetings, meeting_id) ==
    IF meeting_id \in DOMAIN meetings THEN meetings[meeting_id] ELSE PyNone

\* get_active_meetings: the meetings of the returned list
GetActiveMeetings(meetings) == {meetings[m] : m \in DOMAIN meetings}

\* mutant: a reference already stored is kept
AddConversationReferenceKeepsFirst(refs, meeting_id, conversation_ref) ==
    IF meeting_id \in DOMAIN refs THEN refs ELSE Put(refs, meeting_id, conversation_ref)

\* add_conversation_reference
AddConversationReference(refs, meeting_id, conversation_ref) ==
    Put(refs, meeting_id, conversation_ref)

\* _add_conversation_reference of the bot, lines 242-246: the tracker's
\* references after on_turn has seen an activity whose channel data names
\* meeting cd_meeting (Absent: no channel data, or none about a meeting)
OnTurnReferences(refs, cd_meeting, conversation_ref) ==
    IF Truthy(cd_meeting)
    THEN AddConversationReference(refs, cd_meeting, conversation_ref)
    ELSE refs

(* ------------------------- exception handling -------------------------- *)
\* generate_speech_audio: logs and re-raises what the API call raised
GenerateSpeechAudioExc(outcome) == IF outcome = "fail" THEN "APIError" ELSE "none"

\* generate_greeting_audio: logs and re-raises
GenerateGreetingAudioExc(outcome) == GenerateSpeechAudioExc(outcome)

\* _generate_and_play_greeting: except Exception logs and swallows
GenerateAndPlayGreetingExc(inner) == "none"

\* handle_meeting_join: except Exception logs and swallows
HandleMeetingJoinExc(inner) == "none"

\* handle_meeting_leave: except Exception logs and swallows
HandleMeetingLeaveExc(inner) == "none"

\* mutant: the handler lets the exception through
OnJoinExcReraised(inner) == inner

\* on_teams_meeting_participants_join: except Exception logs and swallows
OnJoinExc(inner) == "none"

\* on_teams_meeting_participants_leave: except Exception logs and swallows
OnLeaveExc(inner) == "none"

\* bot_messages: {"status": "ok"} unless an exception reached it
BotMessagesStatus(exc) == IF exc = "none" THEN 200 ELSE 500

\* mutant: the loop is left after the first participant handled
LoopRestBreaks(rest, exc) == <<>>

\* the for loops of the two event handlers: the participants still to be
\* handled after one has been handled; an exception leaves the loop
LoopRest(rest, exc) == IF exc = "none" THEN rest ELSE <<>>

(* ------------------------------- state --------------------------------- *)
VARIABLES
    active_meetings,          \* TeamsService.active_meetings
    participant_cache,        \* TeamsService.participant_cache
    conversation_references,  \* TeamsService.conversation_references
    now,                      \* datetime.utcnow(), as the number of requests received
    tasks,                    \* the webhook requests being handled
    running,                  \* the task that holds the event loop, 0 if none
    dispatch_log,             \* history: the calls of _generate_and_play_greeting
    greeting_has_failed,      \* history: some speech API call has raised
    last,                     \* history: the step taken last
    held,                     \* what a caller of get_meeting_info or
                              \* get_active_meetings got and still holds
    greeting                  \* the request of the test greeting route and
                              \* what became of it

vars == <<active_meetings, participant_cache, conversation_references, now,
          tasks, running, dispatch_log, greeting_has_failed, last, held,
          greeting>>

\* the requests that can be in flight together
Tasks == {1, 2}

IdleTask ==
    [pc |-> "idle", kind |-> "none", meeting_id |-> PyNone, batch |-> <<>>,
     cur |-> NoParticipant, entry |-> 0, exc |-> "none",
     greeting_failed |-> FALSE, disturbed |-> FALSE,
     event |-> Event(Absent, <<>>, Absent)]

NoLast ==
    [op |-> "init", task |-> 0, meeting_id |-> PyNone, participant_id |-> PyNone,
     was_tracked |-> FALSE, had_ref |-> FALSE, pre_participants |-> <<>>,
     is_new |-> FALSE, exc |-> "none", outcome |-> "none", rest |-> <<>>,
     disturbed |-> FALSE, kind |-> "none", status |-> 0, greeting_failed |-> FALSE,
     delivered |-> FALSE, conversation_ref |-> PyNone, body |-> <<>>]

\* the MeetingInfo objects a caller holds, by meeting id: what they were when
\* they were returned and what they are now
NoHeld == [kind |-> "none", returned |-> EmptyDict, current |-> EmptyDict]

\* the objects held after a step from meetings to meetings1. The callers hold
\* the objects of active_meetings themselves (a meeting id and started_at
\* name one object): handle_meeting_join appends to its participants list,
\* handle_meeting_leave assigns its participants attribute, and
\* _cleanup_meeting takes the object, then without participants, out of the
\* dict
HeldAfter(h, meetings, meetings1) ==
    [h EXCEPT !.current =
        [m \in DOMAIN h.returned |->
            IF m \in DOMAIN meetings1
               /\ meetings1[m].started_at = h.returned[m].started_at
            THEN meetings1[m]
            ELSE IF m \in DOMAIN meetings
                    /\ meetings[m].started_at = h.returned[m].started_at
                 THEN [meetings[m] EXCEPT !.participants = <<>>]
                 ELSE h.current[m]]]

\* no request of the test greeting route
NoGreeting ==
    [pc |-> "none", participant_name |-> PyNone, language |-> PyNone,
     custom_message |-> PyNone, text |-> PyNone, voice |-> PyNone,
     exc |-> "none", status |-> 0]

Init ==
    /\ held = NoHeld
    /\ greeting = NoGreeting
    /\ active_meetings = EmptyDict
    /\ participant_cache = EmptyDict
    /\ conversation_references = EmptyDict
    /\ now = 0
    /\ tasks = [t \in Tasks |-> IdleTask]
    /\ running = 0
    /\ dispatch_log = <<>>
    /\ greeting_has_failed = FALSE
    /\ last = NoLast

\* a request is given to the first task that handles none
FreeTask(t) ==
    /\ tasks[t].pc = "idle"
    /\ \A u \in Tasks : tasks[u].pc = "idle" => t <= u

\* the conversation a meeting event arrives in
EventRef == "conv1"

(* ------------------------------ requests ------------------------------- *)
\* bot_messages -> on_turn -> on_teams_meeting_participants_join, up to the loop
JoinEvent(t, meeting_info_id, batch, cd_meeting) ==
    /\ running = 0
    /\ FreeTask(t)
    /\ now < MaxTime
    /\ now' = now + 1
    /\ conversation_references' =
           OnTurnReferences(conversation_references, cd_meeting, EventRef)
    /\ tasks' = [tasks EXCEPT ![t] =
           [IdleTask EXCEPT !.pc = "join", !.kind = "join",
                            !.meeting_id = Getattr(meeting_info_id, "unknown"),
                            !.batch = batch,
                            !.event = Event(meeting_info_id, batch, cd_meeting)]]
    /\ running' = t
    /\ last' = [NoLast EXCEPT !.op = "join_event", !.task = t,
                              !.meeting_id = Getattr(meeting_info_id, "unknown")]
    /\ UNCHANGED <<active_meetings, participant_cache, dispatch_log,
                   greeting_has_failed, held, greeting>>

\* one pass of the for loop of on_teams_meeting_participants_join: convert,
\* skip the bot, handle_meeting_join up to the synthesis call
JoinStep(t) ==
    /\ running = t
    /\ tasks[t].pc = "join"
    /\ tasks[t].batch # <<>>
    /\ LET tp   == Head(tasks[t].batch)
           rest == Tail(tasks[t].batch)
           m    == tasks[t].meeting_id
       IN
       IF ConvertRaises(tp)
       THEN /\ tasks' = [tasks EXCEPT ![t].batch = LoopRest(rest, "ValidationError"),
                                      ![t].exc = OnJoinExc("ValidationError")]
            /\ last' = [NoLast EXCEPT !.op = "convert_error", !.task = t,
                                      !.meeting_id = m, !.exc = "ValidationError"]
            /\ UNCHANGED <<active_meetings, participant_cache, dispatch_log, running>>
       ELSE
       LET p == ConvertTeamsParticipant(tp, now) IN
       IF IsBotParticipant(p)
       THEN /\ tasks' = [tasks EXCEPT ![t].batch = rest]
            /\ last' = [NoLast EXCEPT !.op = "skip_bot", !.task = t, !.meeting_id = m,
                                      !.participant_id = p.id]
            /\ UNCHANGED <<active_meetings, participant_cache, dispatch_log, running>>
       ELSE
       LET r == HandleMeetingJoin(active_meetings, participant_cache, m, p, now)
           l == [NoLast EXCEPT !.op = "join", !.task = t, !.meeting_id = m,
                               !.participant_id = p.id,
                               !.was_tracked = (m \in DOMAIN active_meetings),
                               !.had_ref = (m \in DOMAIN conversation_references),
                               !.pre_participants =
                                   IF m \in DOMAIN active_meetings
                                   THEN active_meetings[m].participants ELSE <<>>,
                               !.is_new = r.is_new, !.exc = r.exc, !.rest = rest]
       IN
       /\ active_meetings' = r.active_meetings
       /\ participant_cache' = r.participant_cache
       /\ last' = l
       /\ IF r.is_new
          THEN \* _generate_and_play_greeting up to the call of the speech API
               /\ dispatch_log' = Append(dispatch_log,
                      [meeting_id     |-> m,
                       participant_id |-> p.id,
                       started_at     |-> r.active_meetings[m].started_at,
                       text           |-> GenerateGreetingText(p.display_name,
                                              default_greeting_language, PyNone),
                       voice          |-> SelectedVoice(default_greeting_language)])
               /\ tasks' = [tasks EXCEPT ![t].pc = "synth", ![t].cur = p,
                                         ![t].batch = rest,
                                         ![t].entry = Len(dispatch_log) + 1,
                                         ![t].disturbed = FALSE]
               /\ running' = 0
          ELSE /\ tasks' = [tasks EXCEPT
                      ![t].batch = LoopRest(rest, HandleMeetingJoinExc(r.exc)),
                      ![t].exc = OnJoinExc(HandleMeetingJoinExc(r.exc))]
               /\ UNCHANGED <<dispatch_log, running>>
    /\ held' = HeldAfter(held, active_meetings, active_meetings')
    /\ UNCHANGED greeting
    /\ UNCHANGED <<conversation_references, now, greeting_has_failed>>

\* the speech API call of a suspended join returns or raises; the greeting is
\* played, handle_meeting_join logs the activity and returns to the loop
SynthReturn(t, outcome) ==
    /\ running = 0
    /\ tasks[t].pc = "synth"
    /\ LET m    == tasks[t].meeting_id
           excA == GenerateGreetingAudioExc(outcome)
           excG == GenerateAndPlayGreetingExc(excA)
           excJ == HandleMeetingJoinExc(excG)
           g    == GenerateAndPlayGreeting(active_meetings, participant_cache, m,
                                           tasks[t].cur.id, outcome)
       IN
       /\ active_meetings' = g.active_meetings
       /\ participant_cache' = g.participant_cache
       /\ greeting_has_failed' = (greeting_has_failed \/ outcome = "fail")
       /\ tasks' = [tasks EXCEPT
              ![t].pc = "join",
              ![t].batch = LoopRest(@, excJ),
              ![t].exc = OnJoinExc(excJ),
              ![t].greeting_failed = (@ \/ outcome = "fail")]
       /\ last' = [NoLast EXCEPT !.op = "synth_return", !.task = t, !.meeting_id = m,
                                 !.participant_id = tasks[t].cur.id,
                                 !.outcome = outcome, !.exc = excA,
                                 \* _play_audio_in_meeting builds a message if
                                 \* a reference is stored
                                 !.delivered =
                                     (excA = "none"
                                      /\ m \in DOMAIN conversation_references),
                                 !.rest = tasks[t].batch,
                                 !.disturbed = tasks[t].disturbed]
    /\ running' = t
    /\ held' = HeldAfter(held, active_meetings, active_meetings')
    /\ UNCHANGED greeting
    /\ UNCHANGED <<conversation_references, now, dispatch_log>>

\* bot_messages -> on_turn -> on_teams_meeting_participants_leave, up to the loop
LeaveEvent(t, meeting_info_id, batch, cd_meeting) ==
    /\ running = 0
    /\ FreeTask(t)
    /\ now < MaxTime
    /\ now' = now + 1
    /\ conversation_references' =
           OnTurnReferences(conversation_references, cd_meeting, EventRef)
    /\ tasks' = [tasks EXCEPT ![t] =
           [IdleTask EXCEPT !.pc = "leave", !.kind = "leave",
                            !.meeting_id = Getattr(meeting_info_id, "unknown"),
                            !.batch = batch,
                            !.event = Event(meeting_info_id, batch, cd_meeting)]]
    /\ running' = t
    /\ last' = [NoLast EXCEPT !.op = "leave_event", !.task = t,
                              !.meeting_id = Getattr(meeting_info_id, "unknown")]
    /\ UNCHANGED <<active_meetings, participant_cache, dispatch_log,
                   greeting_has_failed, held, greeting>>

\* one pass of the for loop of on_teams_meeting_participants_leave:
\* handle_meeting_leave, whole
LeaveStep(t) ==
    /\ running = t
    /\ tasks[t].pc = "leave"
    /\ tasks[t].batch # <<>>
    /\ LET tp   == Head(tasks[t].batch)
           rest == Tail(tasks[t].batch)
           m    == tasks[t].meeting_id
           pid  == LeaveParticipantId(tp)
           r    == HandleMeetingLeave(active_meetings, participant_cache,
                                      conversation_references, m, pid)
       IN
       /\ active_meetings' = r.active_meetings
       /\ participant_cache' = r.participant_cache
       /\ conversation_references' = r.conversation_references
       /\ tasks' = [u \in Tasks |->
              IF u = t
              THEN [tasks[u] EXCEPT
                       !.batch = LoopRest(rest, HandleMeetingLeaveExc("none")),
                       !.exc = OnLeaveExc(HandleMeetingLeaveExc("none"))]
              ELSE IF /\ tasks[u].pc = "synth"
                      /\ tasks[u].meeting_id = m
                      /\ tasks[u].cur.id = pid
                   THEN [tasks[u] EXCEPT !.disturbed = TRUE]
                   ELSE tasks[u]]
       /\ last' = [NoLast EXCEPT !.op = "leave", !.task = t, !.meeting_id = m,
                                 !.participant_id = pid,
                                 !.was_tracked = (m \in DOMAIN active_meetings),
                                 !.had_ref = (m \in DOMAIN conversation_references),
                                 !.pre_participants =
                                     IF m \in DOMAIN active_meetings
                                     THEN active_meetings[m].participants ELSE <<>>,
                                 !.rest = rest]
    /\ held' = HeldAfter(held, active_meetings, active_meetings')
    /\ UNCHANGED greeting
    /\ UNCHANGED <<now, running, dispatch_log, greeting_has_failed>>

\* the event handler has returned: bot_messages answers
Respond(t) ==
    /\ running = t
    /\ tasks[t].pc \in {"join", "leave"}
    /\ tasks[t].batch = <<>>
    /\ tasks' = [tasks EXCEPT ![t] = IdleTask]
    /\ running' = 0
    /\ last' = [NoLast EXCEPT !.op = "respond", !.task = t,
                              !.meeting_id = tasks[t].meeting_id,
                              !.kind = tasks[t].kind,
                              !.exc = tasks[t].exc,
                              !.status = BotMessagesStatus(tasks[t].exc),
                              !.greeting_failed = tasks[t].greeting_failed]
    /\ UNCHANGED <<active_meetings, participant_cache, conversation_references,
                   now, dispatch_log, greeting_has_failed, held, greeting>>

\* a message activity: on_turn stores the conversation reference,
\* on_message_activity answers in the chat, bot_messages answers
MessageEvent(t, cd_meeting, conversation_ref) ==
    /\ running = 0
    /\ FreeTask(t)
    /\ now < MaxTime
    /\ now' = now + 1
    /\ conversation_references' =
           OnTurnReferences(conversation_references, cd_meeting, conversation_ref)
    /\ last' = [NoLast EXCEPT !.op = "message", !.task = t, !.meeting_id = cd_meeting,
                              !.had_ref = (cd_meeting \in DOMAIN conversation_references),
                              !.kind = "message",
                              !.conversation_ref = conversation_ref,
                              !.status = BotMessagesStatus("none")]
    /\ UNCHANGED <<active_meetings, participant_cache, tasks, running, dispatch_log,
                   greeting_has_failed, held, greeting>>

\* a request whose body is no activity: request.json() or deserialize raises
BadRequest(t) ==
    /\ running = 0
    /\ FreeTask(t)
    /\ now < MaxTime
    /\ now' = now + 1
    /\ last' = [NoLast EXCEPT !.op = "bad_request", !.task = t, !.kind = "bad",
                              !.exc = "JSONDecodeError",
                              !.status = BotMessagesStatus("JSONDecodeError")]
    /\ UNCHANGED <<active_meetings, participant_cache, conversation_references,
                   tasks, running, dispatch_log, greeting_has_failed, held, greeting>>

Next ==
    \/ \E t \in Tasks, e \in JoinEvents :
           JoinEvent(t, e.meeting_info_id, e.batch, e.cd_meeting)
    \/ \E t \in Tasks : JoinStep(t)
    \/ \E t \in Tasks, outcome \in {"ok", "fail"} : SynthReturn(t, outcome)
    \/ \E t \in Tasks, e \in LeaveEvents :
           LeaveEvent(t, e.meeting_info_id, e.batch, e.cd_meeting)
    \/ \E t \in Tasks : LeaveStep(t)
    \/ \E t \in Tasks : Respond(t)
    \/ \E t \in Tasks, e \in MessageEvents : MessageEvent(t, e[1], e[2])
    \/ \E t \in Tasks : BadRequest(t)

Spec == Init /\ [][Next]_vars

\* no request is being handled
AllIdle == \A u \in Tasks : tasks[u].pc = "idle"

\* the deployment behind the Lambda handler: one request at a time, the next
\* one is received when the previous one has been answered
SequentialNext ==
    \/ AllIdle /\ \E t \in Tasks, e \in JoinEvents :
           JoinEvent(t, e.meeting_info_id, e.batch, e.cd_meeting)
    \/ \E t \in Tasks : JoinStep(t)
    \/ \E t \in Tasks, outcome \in {"ok", "fail"} : SynthReturn(t, outcome)
    \/ AllIdle /\ \E t \in Tasks, e \in LeaveEvents :
           LeaveEvent(t, e.meeting_info_id, e.batch, e.cd_meeting)
    \/ \E t \in Tasks : LeaveStep(t)
    \/ \E t \in Tasks : Respond(t)
    \/ AllIdle /\ \E t \in Tasks, e \in MessageEvents : MessageEvent(t, e[1], e[2])
    \/ AllIdle /\ \E t \in Tasks : BadRequest(t)

SpecSequential == Init /\ [][SequentialNext]_vars

\* the event loop runs the handler that holds it up to its next await or to
\* its answer, so the loop is free again and again, and a handler that has
\* come to its end answers; nothing makes the speech API answer
SpecHungCall ==
    /\ Spec
    /\ []<>(running = 0)
    /\ WF_vars(\E t \in Tasks : Respond(t))

\* the meeting ids callers ask about
QueryIds == {"m1", "m2", "m9"}

\* a caller calls get_meeting_info and keeps what it returns
GetMeetingInfoCall(meeting_id) ==
    /\ running = 0
    /\ held.kind = "none"
    /\ LET objs == IF meeting_id \in DOMAIN active_meetings
                   THEN Put(EmptyDict, meeting_id,
                            GetMeetingInfo(active_meetings, meeting_id))
                   ELSE EmptyDict  \* None
       IN  held' = [kind |-> "get_meeting_info", returned |-> objs, current |-> objs]
    /\ last' = [NoLast EXCEPT !.op = "get_meeting_info", !.meeting_id = meeting_id,
                              !.was_tracked = (meeting_id \in DOMAIN active_meetings)]
    /\ UNCHANGED <<active_meetings, participant_cache, conversation_references, now,
                   tasks, running, dispatch_log, greeting_has_failed, greeting>>

\* a caller calls get_active_meetings and keeps the list it returns
GetActiveMeetingsCall ==
    /\ running = 0
    /\ held.kind = "none"
    /\ LET objs == [m \in {x \in DOMAIN active_meetings :
                               active_meetings[x] \in GetActiveMeetings(active_meetings)}
                      |-> active_meetings[m]]
       IN  held' = [kind |-> "get_active_meetings", returned |-> objs, current |-> objs]
    /\ last' = [NoLast EXCEPT !.op = "get_active_meetings"]
    /\ UNCHANGED <<active_meetings, participant_cache, conversation_references, now,
                   tasks, running, dispatch_log, greeting_has_failed, greeting>>

\* the requests one at a time, and callers of the two read operations
SnapshotNext ==
    \/ SequentialNext
    \/ \E meeting_id \in QueryIds : GetMeetingInfoCall(meeting_id)
    \/ GetActiveMeetingsCall

SpecSnapshot == Init /\ [][SnapshotNext]_vars

\* the bodies of the requests to the test greeting route: GreetingRequest
\* fills in the language when the body has none
RequestNames == {"Ana", "Bia", "Abbot"}
RequestLanguages == Languages \cup {"de-DE", "pt-PT", Absent}
RequestTemplates == {PyNone, "", "{name}", "Oi {name}!", "{name}, {name}", "Dear {title}"}

GreetingRequest(participant_name, language, custom_message) ==
    [NoGreeting EXCEPT !.pc = "request",
                       !.participant_name = participant_name,
                       !.language = Getattr(language, "pt-BR"),
                       !.custom_message = custom_message]

\* a request to the test greeting route has been received
SelectorInit ==
    /\ active_meetings = EmptyDict
    /\ participant_cache = EmptyDict
    /\ conversation_references = EmptyDict
    /\ now = 0
    /\ tasks = [t \in Tasks |-> IdleTask]
    /\ running = 0
    /\ dispatch_log = <<>>
    /\ greeting_has_failed = FALSE
    /\ last = NoLast
    /\ held = NoHeld
    /\ greeting \in {GreetingRequest(n, l, c) :
                          n \in RequestNames, l \in RequestLanguages,
                          c \in RequestTemplates}

\* test_greeting_generation -> generate_greeting_audio, up to the call of the
\* speech API: the text, then the voice; what generate_greeting_text raises
\* is raised again and answered with 500
TestGreetingGeneration ==
    /\ greeting.pc = "request"
    /\ LET exc == GenerateGreetingTextExc(greeting.participant_name,
                       greeting.language, greeting.custom_message)
       IN  greeting' =
               IF exc = "none"
               THEN [greeting EXCEPT
                        !.pc = "done",
                        !.text = GenerateGreetingText(greeting.participant_name,
                                     greeting.language, greeting.custom_message),
                        !.voice = SelectedVoice(greeting.language)]
               ELSE [greeting EXCEPT !.pc = "done", !.exc = exc, !.status = 500]
    /\ UNCHANGED <<active_meetings, participant_cache, conversation_references, now,
                   tasks, running, dispatch_log, greeting_has_failed, last, held>>

SpecSelector == SelectorInit /\ [][TestGreetingGeneration]_vars

\* settings.bot_name
bot_name == "TeamsGreetingBot"

\* mutant: the status counts the participants instead of the meetings
GetBotStatusCountsParticipants(meetings) ==
    [status |-> "active", bot_name |-> bot_name,
     active_meetings_count |-> Cardinality(UNION {IdsOf(m.participants) :
                                                     m \in GetActiveMeetings(meetings)}),
     active_meetings |->
         {[meeting_id |-> m.meeting_id,
           participants_count |-> Len(m.participants),
           started_at |-> m.started_at] : m \in GetActiveMeetings(meetings)}]

\* get_bot_status: the body of the answer; the meetings of the list as a set
GetBotStatus(meetings) ==
    [status |-> "active", bot_name |-> bot_name,
     active_meetings_count |-> Cardinality(GetActiveMeetings(meetings)),
     active_meetings |->
         {[meeting_id |-> m.meeting_id,
           participants_count |-> Len(m.participants),
           started_at |-> m.started_at] : m \in GetActiveMeetings(meetings)}]

\* the get_meeting_info route: 404 if get_meeting_info returns None
MeetingInfoRouteStatus(meetings, meeting_id) ==
    IF meeting_id \in DOMAIN meetings THEN 200 ELSE 404

\* GET /status
GetBotStatusRoute ==
    /\ running = 0
    /\ last' = [NoLast EXCEPT !.op = "get_bot_status", !.status = 200,
                              !.body = GetBotStatus(active_meetings)]
    /\ UNCHANGED <<active_meetings, participant_cache, conversation_references, now,
                   tasks, running, dispatch_log, greeting_has_failed, held, greeting>>

\* GET /meetings/{meeting_id}
GetMeetingInfoRoute(meeting_id) ==
    /\ running = 0
    /\ LET code == MeetingInfoRouteStatus(active_meetings, meeting_id) IN
       last' = [NoLast EXCEPT !.op = "get_meeting_info_route",
                              !.meeting_id = meeting_id, !.status = code,
                              !.body = IF code = 200
                                       THEN GetMeetingInfo(active_meetings, meeting_id)
                                       ELSE <<>>]
    /\ UNCHANGED <<active_meetings, participant_cache, conversation_references, now,
                   tasks, running, dispatch_log, greeting_has_failed, held, greeting>>

\* the requests one at a time, and the two routes of the status query
StatusNext ==
    \/ SequentialNext
    \/ GetBotStatusRoute
    \/ \E meeting_id \in QueryIds : GetMeetingInfoRoute(meeting_id)

SpecStatus == Init /\ [][StatusNext]_vars

\* a join event all of whose participants have an id and a name, one of them
\* a person whose name holds the letters "bot"
BotNameEvent == Event("m1", <<Abbot, Bia>>, "m1")

\* the requests one at a time, this join event among them
BotNameNext ==
    \/ SequentialNext
    \/ AllIdle /\ \E t \in Tasks :
           JoinEvent(t, BotNameEvent.meeting_info_id, BotNameEvent.batch,
                     BotNameEvent.cd_meeting)

SpecBotName == Init /\ [][BotNameNext]_vars

(* ------------------------------- claims -------------------------------- *)
\* the number of Participants with this id in a list
CountId(participants, participant_id) ==
    Cardinality({i \in 1..Len(participants) : participants[i].id = participant_id})

\* the greeting dispatched last is the one for this participant of this meeting
LastDispatchIs(log, meeting_id, participant_id) ==
    /\ Len(log) > 0
    /\ log[Len(log)].meeting_id = meeting_id
    /\ log[Len(log)].participant_id = participant_id

\* C1: a handle_meeting_join for a participant who is already in the meeting
\* (joined, not left since) changes neither the meetings map nor the index nor
\* the references and dispatches no greeting, and the list holds exactly one
\* Participant with that id; a handle_meeting_join for a participant who is
\* not in the meeting adds exactly one entry and dispatches exactly one
\* greeting, for that participant.
C1_JoinDeduplication ==
    [][ (last'.op = "join" /\ last'.exc = "none") =>
          LET m   == last'.meeting_id
              pid == last'.participant_id
              pre == IF m \in DOMAIN active_meetings
                     THEN active_meetings[m].participants ELSE <<>>
          IN  IF pid \in IdsOf(pre)
              THEN /\ active_meetings' = active_meetings
                   /\ participant_cache' = participant_cache
                   /\ conversation_references' = conversation_references
                   /\ dispatch_log' = dispatch_log
                   /\ CountId(active_meetings'[m].participants, pid) = 1
              ELSE /\ CountId(active_meetings'[m].participants, pid) = 1
                   /\ Len(active_meetings'[m].participants) = Len(pre) + 1
                   /\ Len(dispatch_log') = Len(dispatch_log) + 1
                   /\ SubSeq(dispatch_log', 1, Len(dispatch_log)) = dispatch_log
                   /\ LastDispatchIs(dispatch_log', m, pid)
      ]_vars

\* C1 witness: a second join of a participant who is in the meeting has been
\* processed, after the one greeting of the first join
C1_Witness ==
    /\ last.op = "join"
    /\ last.exc = "none"
    /\ last.participant_id \in IdsOf(last.pre_participants)
    /\ Len(dispatch_log) = 1
    /\ StrContains(dispatch_log[1].text, "Ana")

\* C2: for every tracked meeting the index entry is the set of the ids of the
\* Participants of the meeting's list.
C2_IndexMatchesList ==
    \A m \in DOMAIN active_meetings :
        /\ m \in DOMAIN participant_cache
        /\ participant_cache[m] = IdsOf(active_meetings[m].participants)

\* C2 witness: a leave has taken one of two participants out of a meeting
\* that has a conversation reference
C2_Witness ==
    /\ last.op = "leave"
    /\ Len(last.pre_participants) = 2
    /\ last.participant_id \in IdsOf(last.pre_participants)
    /\ last.meeting_id \in DOMAIN active_meetings
    /\ last.meeting_id \in DOMAIN conversation_references

\* C3 (as claimed): within one lifetime of a meeting record (one started_at:
\* the clock advances between a cleanup and the next creation) no participant
\* id has two greeting dispatches.
C3_OneGreetingPerLifetime ==
    \A i, j \in 1..Len(dispatch_log) :
        ( /\ dispatch_log[i].meeting_id = dispatch_log[j].meeting_id
          /\ dispatch_log[i].participant_id = dispatch_log[j].participant_id
          /\ dispatch_log[i].started_at = dispatch_log[j].started_at ) => i = j

\* C4: after handle_meeting_leave(m, id) the id is in neither m's list nor
\* m's index entry, or m is not tracked.
C4_JoinThenLeave ==
    last.op = "leave" =>
        LET m == last.meeting_id  pid == last.participant_id IN
        \/ m \notin DOMAIN active_meetings /\ m \notin DOMAIN participant_cache
        \/ /\ m \in DOMAIN active_meetings
           /\ m \in DOMAIN participant_cache
           /\ pid \notin IdsOf(active_meetings[m].participants)
           /\ pid \notin participant_cache[m]

\* C4 witness: the leave of a participant whom a join had put in the meeting
C4_Witness ==
    /\ last.op = "leave"
    /\ last.participant_id \in IdsOf(last.pre_participants)
    /\ \E i \in 1..Len(dispatch_log) :
          /\ dispatch_log[i].meeting_id = last.meeting_id
          /\ dispatch_log[i].participant_id = last.participant_id

\* C5: when handle_meeting_leave removes the last participant of m, m is in
\* none of the three maps, get_meeting_info(m) finds nothing and
\* get_active_meetings() does not contain m.
C5_CleanupOnLastLeave ==
    ( /\ last.op = "leave"
      /\ last.was_tracked
      /\ IdsOf(last.pre_participants) \subseteq {last.participant_id} ) =>
        /\ last.meeting_id \notin DOMAIN active_meetings
        /\ last.meeting_id \notin DOMAIN participant_cache
        /\ last.meeting_id \notin DOMAIN conversation_references
        /\ GetMeetingInfo(active_meetings, last.meeting_id) = PyNone
        /\ \A info \in GetActiveMeetings(active_meetings) :
              info.meeting_id # last.meeting_id

\* C5 witness: the last participant has left a meeting that had a
\* conversation reference
C5_Witness ==
    /\ last.op = "leave"
    /\ last.was_tracked
    /\ last.had_ref
    /\ IdsOf(last.pre_participants) = {last.participant_id}

\* C6: a join for a meeting id that is not tracked creates a record whose
\* start timestamp is the time of the join, later than that of every earlier
\* record of the id, whose list holds the joining participant alone and whose
\* index entry holds that id alone, and it dispatches a greeting for it.
C6_RecreationFromScratch ==
    ( /\ last.op = "join"
      /\ ~last.was_tracked
      /\ last.exc = "none" ) =>
        LET m == last.meeting_id  pid == last.participant_id IN
        /\ m \in DOMAIN active_meetings
        /\ active_meetings[m].started_at = now
        /\ Len(active_meetings[m].participants) = 1
        /\ active_meetings[m].participants[1].id = pid
        /\ participant_cache[m] = {pid}
        /\ last.is_new
        /\ LastDispatchIs(dispatch_log, m, pid)
        /\ dispatch_log[Len(dispatch_log)].started_at = now
        /\ \A i \in 1..(Len(dispatch_log) - 1) :
              dispatch_log[i].meeting_id = m => dispatch_log[i].started_at < now

\* C6 witness: the join re-creates a meeting that had been tracked before
C6_Witness ==
    /\ last.op = "join"
    /\ ~last.was_tracked
    /\ last.exc = "none"
    /\ \E i \in 1..(Len(dispatch_log) - 1) :
          dispatch_log[i].meeting_id = last.meeting_id

\* C7: when one participant leaves a meeting in which others remain, the
\* meeting stays tracked, its list is the former list without the one who
\* left, and its index entry is the set of the remaining ids.
C7_PartialLeave ==
    ( /\ last.op = "leave"
      /\ last.was_tracked
      /\ IdsOf(last.pre_participants) \ {last.participant_id} # {} ) =>
        LET m == last.meeting_id  pid == last.participant_id IN
        /\ m \in DOMAIN active_meetings
        /\ active_meetings[m].participants =
               SelectSeq(last.pre_participants, LAMBDA p : p.id # pid)
        /\ participant_cache[m] = IdsOf(last.pre_participants) \ {pid}
        /\ \E info \in GetActiveMeetings(active_meetings) : info.meeting_id = m

\* C7 witness: p1 has left a meeting of p1 and p2
C7_Witness ==
    /\ last.op = "leave"
    /\ last.participant_id = "p1"
    /\ IdsOf(last.pre_participants) = {"p1", "p2"}
    /\ last.meeting_id \in DOMAIN active_meetings
    /\ IdsOf(active_meetings[last.meeting_id].participants) = {"p2"}

\* C8: when the speech API call of a join fails, then (unless a leave for the
\* same participant was processed while the call was pending) the participant
\* is in the list and in the index of the meeting, and no exception leaves
\* handle_meeting_join.
C8_FailedGreetingKeepsMembership ==
    ( /\ last.op = "synth_return"
      /\ last.outcome = "fail"
      /\ ~last.disturbed ) =>
        LET m == last.meeting_id  pid == last.participant_id IN
        /\ m \in DOMAIN active_meetings
        /\ m \in DOMAIN participant_cache
        /\ pid \in IdsOf(active_meetings[m].participants)
        /\ pid \in participant_cache[m]
        /\ tasks[last.task].exc = "none"

\* C8 witness: a speech API call has failed
C8_Witness ==
    /\ last.op = "synth_return"
    /\ last.outcome = "fail"
    /\ last.exc = "APIError"
    /\ ~last.disturbed

\* C9: a failed speech API call leaves its handler in the loop with the
\* participants that were still to come; and once a greeting has failed, a
\* join of a participant who is not in the meeting still adds the participant
\* to list and index and dispatches the greeting, and a leave still removes
\* the participant.
C9_FailureBlocksNothing ==
    /\ (last.op = "synth_return" /\ last.outcome = "fail") =>
          /\ tasks[last.task].pc = "join"
          /\ tasks[last.task].batch = last.rest
          /\ running = last.task
    /\ ( /\ greeting_has_failed
         /\ last.op = "join"
         /\ last.exc = "none"
         /\ last.participant_id \notin IdsOf(last.pre_participants) ) =>
          /\ last.is_new
          /\ last.participant_id
                 \in IdsOf(active_meetings[last.meeting_id].participants)
          /\ last.participant_id \in participant_cache[last.meeting_id]
          /\ LastDispatchIs(dispatch_log, last.meeting_id, last.participant_id)
    /\ ( /\ greeting_has_failed
         /\ last.op = "leave"
         /\ last.meeting_id \in DOMAIN active_meetings ) =>
          /\ last.participant_id
                 \notin IdsOf(active_meetings[last.meeting_id].participants)
          /\ last.participant_id \notin participant_cache[last.meeting_id]

\* C9 witness: after the greeting of one participant of a batch has failed,
\* the next participant of the batch has been added and greeted
C9_Witness ==
    /\ last.op = "join"
    /\ last.is_new
    /\ tasks[last.task].greeting_failed
    /\ tasks[last.task].pc = "synth"

\* C10: every join or leave event that reaches the bot is answered with
\* {"status": "ok"}, whatever happened to the greeting, the speech API call
\* or the tracker update.
C10_WebhookAcknowledges ==
    (last.op = "respond" /\ last.kind \in {"join", "leave"}) =>
        /\ last.status = 200
        /\ last.exc = "none"

\* C10 witness: a join event in which a greeting failed is answered
C10_Witness ==
    /\ last.op = "respond"
    /\ last.kind = "join"
    /\ last.greeting_failed
    /\ last.status = 200

\* an event that lacks its meeting id, or has a participant who lacks the id
\* or the name or cannot be converted
MalformedEvent(e) ==
    \/ ~IsStr(e.meeting_info_id)
    \/ \E i \in 1..Len(e.batch) :
           \/ ~IsStr(e.batch[i].id)
           \/ ~IsStr(e.batch[i].name)
           \/ ConvertRaises(e.batch[i])

\* C11: a malformed join or leave event is dropped as a whole: no step of its
\* handler changes the meetings map, the index or the conversation references,
\* and none dispatches a greeting.
C11_MalformedEventDropped ==
    [][ \A t \in Tasks :
          (last'.task = t /\ tasks[t].pc \in {"join", "leave", "synth"}
             /\ MalformedEvent(tasks[t].event))
          => UNCHANGED <<active_meetings, participant_cache,
                         conversation_references, dispatch_log>> ]_vars

\* the participants of a batch that are still to be handled, and would be
\* added, are in the index of the meeting
RestApplied(t) ==
    \A i \in 1..Len(tasks[t].batch) :
        LET tp == tasks[t].batch[i] IN
        (~ConvertRaises(tp) /\ ~IsBotParticipant(ConvertTeamsParticipant(tp, now)))
        => /\ tasks[t].meeting_id \in DOMAIN participant_cache
           /\ Getattr(tp.id, "unknown") \in participant_cache[tasks[t].meeting_id]

\* C12: when the synthesis call of a join is issued the participant is in the
\* index and in the list; and a synthesis call that never returns blocks no
\* state update: the participants after it in the same batch get their state
\* update while the call is pending.
C12_HungCallBlocksNothing ==
    /\ [](last.op = "join" /\ last.is_new =>
            /\ last.participant_id \in participant_cache[last.meeting_id]
            /\ CountId(active_meetings[last.meeting_id].participants,
                       last.participant_id) = 1)
    /\ \A t \in Tasks :
           (tasks[t].pc = "synth") ~> (tasks[t].pc # "synth" \/ RestApplied(t))

\* a synthesis call of a request other than t's is pending
OtherCallPending(t) == \E u \in Tasks \ {t} : tasks[u].pc = "synth"

\* C12, amended: when the synthesis call of a join is issued the participant
\* is in the index and in the list; while the call is pending its handler
\* takes no step but the return of the call, so the participants after it in
\* the same batch wait; the joins and leaves of other requests have their
\* state update applied meanwhile.
C12_HungCallBlocksOnlyItsBatch ==
    [][ LET m   == last'.meeting_id
            pid == last'.participant_id
        IN
        /\ (last'.op = "join" /\ last'.is_new) =>
              /\ pid \in participant_cache'[m]
              /\ CountId(active_meetings'[m].participants, pid) = 1
              /\ tasks'[last'.task].pc = "synth"
        /\ \A t \in Tasks : tasks[t].pc = "synth" =>
              IF last'.task = t
              THEN last'.op = "synth_return"
              ELSE /\ tasks'[t].pc = "synth"
                   /\ tasks'[t].batch = tasks[t].batch
        /\ (last'.op = "join" /\ last'.exc = "none" /\ OtherCallPending(last'.task)) =>
              /\ pid \in participant_cache'[m]
              /\ CountId(active_meetings'[m].participants, pid) = 1
        /\ (last'.op = "leave" /\ OtherCallPending(last'.task)
               /\ m \in DOMAIN active_meetings') =>
              /\ pid \notin participant_cache'[m]
              /\ CountId(active_meetings'[m].participants, pid) = 0 ]_vars

\* a leave of another request has been applied while a call is pending whose
\* batch still holds a participant who has not been added
C12_Witness ==
    \E t \in Tasks :
        /\ tasks[t].pc = "synth"
        /\ tasks[t].batch # <<>>
        /\ ~RestApplied(t)
        /\ last.op = "leave" /\ last.task # t /\ last.was_tracked
        /\ last.participant_id = tasks[t].cur.id

\* C13: a handle_meeting_leave for a meeting that is not tracked changes
\* neither the meetings map nor the index nor the references, creates no
\* meeting and raises nothing.
C13_UntrackedLeaveIsNoOp ==
    [][ (last'.op = "leave" /\ ~last'.was_tracked) =>
          /\ UNCHANGED <<active_meetings, participant_cache, conversation_references>>
          /\ last'.meeting_id \notin DOMAIN active_meetings'
          /\ last'.meeting_id \notin DOMAIN participant_cache'
          /\ tasks'[last'.task].exc = "none" ]_vars

\* a leave for an untracked meeting has been handled while a reference was
\* stored for it and another meeting was tracked
C13_Witness ==
    /\ last.op = "leave"
    /\ ~last.was_tracked
    /\ last.had_ref
    /\ last.meeting_id \in DOMAIN conversation_references
    /\ active_meetings # EmptyDict

\* C14: whatever the outcome of a greeting (played, synthesis failed, no
\* conversation reference stored), the part of _generate_and_play_greeting
\* that runs when the speech API call ends leaves the meetings map, with every
\* participant list, and the index as they were.
C14_DispatcherKeepsMembership ==
    [][ last'.op = "synth_return" =>
          UNCHANGED <<active_meetings, participant_cache>> ]_vars

\* a greeting has ended without a stored reference after another one had
\* failed, its participant being tracked
C14_Witness ==
    /\ last.op = "synth_return"
    /\ last.outcome = "ok"
    /\ ~last.delivered
    /\ greeting_has_failed
    /\ last.meeting_id \in DOMAIN participant_cache
    /\ last.participant_id \in participant_cache[last.meeting_id]

\* C15: add_conversation_reference(m, ref), as on_turn calls it for a message
\* activity of meeting m, succeeds whether or not m is tracked; afterwards
\* the reference stored for m is ref, the references of the other meetings
\* are what they were, and the meetings map and the index are unchanged.
C15_ReferenceUpsert ==
    [][ (last'.op = "message" /\ Truthy(last'.meeting_id)) =>
          LET m == last'.meeting_id IN
          /\ DOMAIN conversation_references' = DOMAIN conversation_references \cup {m}
          /\ conversation_references'[m] = last'.conversation_ref
          /\ \A k \in DOMAIN conversation_references \ {m} :
                 conversation_references'[k] = conversation_references[k]
          /\ UNCHANGED <<active_meetings, participant_cache>>
          /\ last'.status = 200 ]_vars

\* a reference has replaced an earlier one for a meeting that is not tracked,
\* while another meeting has its own reference
C15_Witness ==
    /\ last.op = "message"
    /\ last.had_ref
    /\ last.meeting_id \notin DOMAIN active_meetings
    /\ conversation_references[last.meeting_id] = last.conversation_ref
    /\ \E k \in DOMAIN conversation_references :
           k # last.meeting_id /\ conversation_references[k] # last.conversation_ref

\* C16: get_meeting_info and get_active_meetings change no tracker state, and
\* what they returned stays what it was when it was returned, whatever joins
\* and leaves are handled afterwards.
C16_ReadOnlySnapshots ==
    /\ [][ last'.op \in {"get_meeting_info", "get_active_meetings"} =>
             UNCHANGED <<active_meetings, participant_cache,
                         conversation_references>> ]_vars
    /\ [](held.current = held.returned)

\* a template of the requests with the name put in the place of {name}
Interpolated(template, name) ==
    CASE template = "" -> ""
      [] template = "{name}" -> name
      [] template = "Oi {name}!" -> "Oi " \o name \o "!"
      [] template = "{name}, {name}" -> name \o ", " \o name
      [] template = "Dear {title}" -> "Dear {title}"

\* the canned phrase of a language, the pt-BR one for the other languages
CannedPhrase(language, name) ==
    CASE language = "en-US" -> "Good morning, " \o name
      [] language = "es-ES" -> "Buenos dias, " \o name
      [] language = "fr-FR" -> "Bonjour, " \o name
      [] OTHER -> "Bom dia, " \o name

NameOnlyTemplates == {"{name}", "Oi {name}!", "{name}, {name}"}

C18_VoiceSelection ==
    (greeting.pc = "done" /\ greeting.exc = "none") =>
        /\ greeting.voice = SelectedVoice(greeting.language)
        /\ greeting.voice # PyNone
        /\ greeting.language \in Languages =>
               \A l \in Languages \ {greeting.language} :
                   SelectedVoice(l) # greeting.voice
        /\ greeting.language \notin Languages =>
               greeting.voice = SelectedVoice("pt-BR")
        /\ Cardinality({SelectedVoice(l) : l \in Languages}) = 4

\* a request in a language outside the four has got the voice of pt-BR, which
\* is not the voice of en-US
C18_Witness ==
    /\ greeting.pc = "done"
    /\ greeting.language = "de-DE"
    /\ greeting.voice = "alloy"
    /\ SelectedVoice("en-US") # greeting.voice

\* C19: in any tracker state the status route answers 200 with a status
\* field, a bot_name field, the number of the tracked meetings and, for each
\* of them, its number of participants; the per-meeting route answers 404
\* for the untracked ids and for no other; neither route changes the tracker
\* state.
C19_StatusQuery ==
    [][ /\ last'.op \in {"get_bot_status", "get_meeting_info_route"} =>
             UNCHANGED <<active_meetings, participant_cache,
                         conversation_references, dispatch_log>>
        /\ last'.op = "get_bot_status" =>
             /\ last'.status = 200
             /\ {"status", "bot_name"} \subseteq DOMAIN last'.body
             /\ last'.body.active_meetings_count = Cardinality(DOMAIN active_meetings)
             /\ Cardinality(last'.body.active_meetings)
                    = Cardinality(DOMAIN active_meetings)
             /\ \A m \in DOMAIN active_meetings :
                    \E e \in last'.body.active_meetings :
                        /\ e.meeting_id = m
                        /\ e.participants_count = Len(active_meetings[m].participants)
        /\ last'.op = "get_meeting_info_route" =>
             /\ last'.status = 404 <=> last'.meeting_id \notin DOMAIN active_meetings
             /\ last'.meeting_id \in DOMAIN active_meetings =>
                    /\ last'.status = 200
                    /\ last'.body = active_meetings[last'.meeting_id] ]_vars

\* the status of two tracked meetings, one with two participants and one
\* with one, has been answered
C19_Witness ==
    /\ last.op = "get_bot_status"
    /\ last.body.active_meetings_count = 2
    /\ \E e \in last.body.active_meetings : e.participants_count = 2
    /\ \E e \in last.body.active_meetings : e.participants_count = 1

\* participant_id is in the index and in the list of meeting_id
InMeeting(meeting_id, participant_id) ==
    /\ meeting_id \in DOMAIN participant_cache
    /\ participant_id \in participant_cache[meeting_id]
    /\ meeting_id \in DOMAIN active_meetings
    /\ CountId(active_meetings[meeting_id].participants, participant_id) = 1

\* C20: when the handler of a join event whose participants all have an id
\* and a name has come to its end, every participant of the event is in the
\* list and in the index of the meeting, whatever its display name; and a
\* participant leaves the index only by a leave for its id.
C20_EveryNewParticipantTracked ==
    /\ [](\A t \in Tasks :
            (tasks[t].pc = "join" /\ tasks[t].batch = <<>>
               /\ ~MalformedEvent(tasks[t].event))
            => \A i \in 1..Len(tasks[t].event.batch) :
                   InMeeting(tasks[t].meeting_id, tasks[t].event.batch[i].id))
    /\ [][ \A m \in DOMAIN participant_cache : \A pid \in participant_cache[m] :
             (m \notin DOMAIN participant_cache' \/ pid \notin participant_cache'[m])
             => (last'.op = "leave" /\ last'.meeting_id = m
                   /\ last'.participant_id = pid) ]_vars

\* C21: a handle_meeting_leave(m, q) for a tracked meeting m in which q is not
\* present raises nothing and changes neither the meetings map nor the index
\* nor the references: m keeps its list, its index entry and its reference,
\* the other meetings are untouched, and m is not cleaned up.
C21_LeaveOfAbsentParticipant ==
    [][ (last'.op = "leave" /\ last'.was_tracked
           /\ last'.participant_id \notin IdsOf(last'.pre_participants)) =>
          /\ UNCHANGED <<active_meetings, participant_cache, conversation_references>>
          /\ last'.meeting_id \in DOMAIN active_meetings'
          /\ active_meetings'[last'.meeting_id].participants = last'.pre_participants
          /\ tasks'[last'.task].exc = "none" ]_vars

\* a leave for somebody who is not in a tracked meeting has been handled, the
\* meeting having a reference and another meeting being tracked
C21_Witness ==
    /\ last.op = "leave"
    /\ last.was_tracked
    /\ last.participant_id \notin IdsOf(last.pre_participants)
    /\ last.had_ref
    /\ last.meeting_id \in DOMAIN conversation_references
    /\ \E m \in DOMAIN active_meetings : m # last.meeting_id

\* C22: in every reachable state, the states in which a join handler is
\* suspended in its synthesis call among them, every tracked meeting has at
\* least one participant in its list, and the meetings map and the index
\* have the same meeting ids.
C22_NoEmptyMeetings ==
    /\ \A m \in DOMAIN active_meetings : Len(active_meetings[m].participants) >= 1
    /\ DOMAIN active_meetings = DOMAIN participant_cache

\* while a join handler is suspended, the leave of the participant it greets
\* has emptied and cleaned up its meeting, another meeting being tracked
C22_Witness ==
    /\ \E t \in Tasks : /\ tasks[t].pc = "synth"
                         /\ tasks[t].meeting_id = last.meeting_id
                         /\ tasks[t].cur.id = last.participant_id
    /\ last.op = "leave"
    /\ last.was_tracked
    /\ last.meeting_id \notin DOMAIN active_meetings
    /\ active_meetings # EmptyDict

\* task u is suspended in the synthesis call of the greeting of participant_id
\* in meeting_id, and no leave for that participant has been handled since
SuspendedJoinOf(u, meeting_id, participant_id) ==
    /\ tasks[u].pc = "synth"
    /\ tasks[u].meeting_id = meeting_id
    /\ tasks[u].cur.id = participant_id
    /\ ~tasks[u].disturbed

\* C23: a handle_meeting_join(m, p) that runs while another join handler for
\* the same m and p is suspended in its synthesis call finds p in the index:
\* it adds no entry and dispatches no greeting, so the list holds one
\* Participant for p and the greeting of the suspended handler is the only
\* one.
C23_ConcurrentDuplicateJoin ==
    [][ \A u \in Tasks \ {last'.task} :
          (last'.op = "join"
             /\ SuspendedJoinOf(u, last'.meeting_id, last'.participant_id)) =>
          LET m   == last'.meeting_id
              pid == last'.participant_id
          IN
          /\ ~last'.is_new
          /\ UNCHANGED <<active_meetings, participant_cache, dispatch_log>>
          /\ CountId(active_meetings'[m].participants, pid) = 1
          /\ pid \in participant_cache'[m]
          /\ \A i \in 1..Len(dispatch_log') :
                 (dispatch_log'[i].meeting_id = m
                    /\ dispatch_log'[i].participant_id = pid
                    /\ i >= tasks[u].entry)
                 => i = tasks[u].entry ]_vars

\* a second join for a participant has been handled while the handler of the
\* first one is suspended
C23_Witness ==
    /\ last.op = "join"
    /\ ~last.is_new
    /\ \E u \in Tasks \ {last.task} :
           SuspendedJoinOf(u, last.meeting_id, last.participant_id)
    /\ CountId(active_meetings[last.meeting_id].participants, last.participant_id) = 1

\* C24: when handle_meeting_leave(m, p) has run while handle_meeting_join(m, p)
\* was suspended in its synthesis call, the join handler, resumed, adds
\* nothing back: the maps are what they were, p is still absent from the list
\* and the index, and a meeting that was cleaned up is not created again.
C24_LeaveDuringSuspendedJoin ==
    [][ (last'.op = "synth_return" /\ last'.disturbed) =>
          LET m   == last'.meeting_id
              pid == last'.participant_id
          IN
          /\ UNCHANGED <<active_meetings, participant_cache, conversation_references>>
          /\ m \notin DOMAIN active_meetings =>
                 (m \notin DOMAIN active_meetings' /\ m \notin DOMAIN participant_cache')
          /\ (m \in DOMAIN participant_cache /\ pid \notin participant_cache[m]) =>
                 /\ pid \notin participant_cache'[m]
                 /\ CountId(active_meetings'[m].participants, pid) = 0 ]_vars

\* a join handler has been resumed after the leave of its participant had
\* cleaned up the meeting, and the meeting is not tracked
C24_Witness ==
    /\ last.op = "synth_return"
    /\ last.disturbed
    /\ last.meeting_id \notin DOMAIN active_meetings
    /\ last.meeting_id \notin DOMAIN participant_cache

\* C25: in every reachable state no participant list holds two Participants
\* with the same id, and the length of the list of a meeting is the size of
\* its index entry.
C25_NoDuplicateEntries ==
    \A m \in DOMAIN active_meetings :
        LET ps == active_meetings[m].participants IN
        /\ \A i, j \in 1..Len(ps) : ps[i].id = ps[j].id => i = j
        /\ m \in DOMAIN participant_cache
        /\ Len(ps) = Cardinality(participant_cache[m])

\* a join for somebody already present has been handled in a meeting of two
C25_Witness ==
    /\ last.op = "join"
    /\ ~last.is_new
    /\ last.exc = "none"
    /\ last.meeting_id \in DOMAIN active_meetings
    /\ Len(active_meetings[last.meeting_id].participants) = 2
    /\ last.participant_id \in IdsOf(active_meetings[last.meeting_id].participants)

\* what the three maps hold for meeting id k, the same before and after a step
SameForMeeting(k) ==
    /\ (k \in DOMAIN active_meetings) = (k \in DOMAIN active_meetings')
    /\ k \in DOMAIN active_meetings => active_meetings'[k] = active_meetings[k]
    /\ (k \in DOMAIN participant_cache) = (k \in DOMAIN participant_cache')
    /\ k \in DOMAIN participant_cache => participant_cache'[k] = participant_cache[k]
    /\ (k \in DOMAIN conversation_references) = (k \in DOMAIN conversation_references')
    /\ k \in DOMAIN conversation_references =>
           conversation_references'[k] = conversation_references[k]

\* C26: handle_meeting_join(m, p) and handle_meeting_leave(m, q) change only
\* what the three maps hold for m: the record (list and start timestamp), the
\* index entry and the reference of every other meeting id are what they
\* were, and no other meeting id appears or disappears.
C26_MeetingIsolation ==
    [][ last'.op \in {"join", "leave"} =>
          \A k \in (DOMAIN active_meetings \cup DOMAIN active_meetings'
                     \cup DOMAIN participant_cache \cup DOMAIN participant_cache'
                     \cup DOMAIN conversation_references
                     \cup DOMAIN conversation_references') \ {last'.meeting_id} :
              SameForMeeting(k) ]_vars

\* the last leave of a meeting has cleaned it up while another meeting is
\* tracked and has its reference
C26_Witness ==
    /\ last.op = "leave"
    /\ last.was_tracked
    /\ last.had_ref
    /\ last.meeting_id \notin DOMAIN active_meetings
    /\ last.meeting_id \notin DOMAIN conversation_references
    /\ \E k \in DOMAIN active_meetings :
           k # last.meeting_id /\ k \in DOMAIN conversation_references

====
